---- MODULE Spec2Model ----
(***************************************************************************)
(* Model of the AnyMessage API team layer:                                 *)
(*   api/src/models/team.model.ts          TeamModel, verifyTeamName,      *)
(*                                         verifySubdomain                 *)
(*   api/src/controllers/integration.controller/save.post.ts   postSave    *)
(*                                                                         *)
(* Four specifications, one per unit of the source:                        *)
(*   SpecTeam       the TeamModel accessor over the teams table            *)
(*   SpecTeamName   the verifyTeamName middleware                          *)
(*   SpecSubdomain  the verifySubdomain middleware                         *)
(*   SpecSave       the postSave request handler                           *)
(***************************************************************************)
EXTENDS Integers, Sequences, FiniteSets

(***************************************************************************)
(* Bounds of the model.                                                    *)
(***************************************************************************)
\* longest body.newURL string drawn for verifyTeamName
MaxURLLen == 3
\* longest host part of an Origin header drawn for verifySubdomain
MaxHostLen == 3
\* most rows the users table holds in SpecSubdomain
MaxUsers == 1
\* most rows the teams table holds in SpecTeam
MaxTeams == 2

(***************************************************************************)
(* JavaScript values.  A string is a sequence of one-character strings.    *)
(***************************************************************************)
Undefined == [t |-> "undefined"]
Null == [t |-> "null"]
Str(s) == [t |-> "string", s |-> s]
Num(n) == [t |-> "number", n |-> n]

\* ECMAScript ToBoolean, as used by `!x`, `x || y`, `x && y`, `if (x)`
Truthy(v) ==
    CASE v.t = "undefined" -> FALSE
      [] v.t = "null" -> FALSE
      [] v.t = "string" -> Len(v.s) > 0
      [] v.t = "number" -> v.n # 0
      [] OTHER -> TRUE

\* ECMAScript ToString, as applied by RegExp.prototype.test to its argument
ToString(v) ==
    CASE v.t = "string" -> v.s
      [] v.t = "undefined" -> <<"u", "n", "d", "e", "f", "i", "n", "e", "d">>
      [] v.t = "null" -> <<"n", "u", "l", "l">>

\* all strings over alphabet of length 0..n
StringsUpTo(alphabet, n) == UNION {[1..k -> alphabet] : k \in 0..n}

(***************************************************************************)
(* String.prototype.split with a non-empty string separator.               *)
(***************************************************************************)
\* first index at which sep occurs in s, 0 when it does not occur
IndexOf(s, sep) ==
    LET hits == {i \in 1..(Len(s) - Len(sep) + 1) :
                    SubSeq(s, i, i + Len(sep) - 1) = sep}
    IN IF hits = {} THEN 0 ELSE CHOOSE i \in hits : \A j \in hits : i <= j

RECURSIVE Split(_, _)
Split(s, sep) ==
    LET i == IndexOf(s, sep)
    IN IF i = 0
       THEN <<s>>
       ELSE <<SubSeq(s, 1, i - 1)>> \o Split(SubSeq(s, i + Len(sep), Len(s)), sep)

(***************************************************************************)
(* State.                                                                  *)
(***************************************************************************)
VARIABLES
    teams,        \* the teams table: row i has id i
    users,        \* the users table: rows [email, team_id]
    initialized,  \* TeamModel.initialized
    id,           \* TeamModel.id
    subdomain,    \* TeamModel.subdomain
    customer_id,  \* TeamModel.customer_id
    last,         \* the last accessor or store call: operation, outcome, writes
    everReady,    \* history: init() or create() has completed successfully
    storeFailed,  \* history: some store call of the accessor has failed
    created,      \* history: [id, subdomain] of the last successful create()
    req,          \* the request a middleware or handler runs on
    res,          \* the calls made on the response object, in order
    nextCalls,    \* how many times next() was called
    queries,      \* how many store queries the middleware issued
    pc            \* position of the running middleware or handler

vars == <<teams, users, initialized, id, subdomain, customer_id, last, everReady,
          storeFailed, created, req, res, nextCalls, queries, pc>>

teamVars == <<teams, users, initialized, id, subdomain, customer_id, last,
              everReady, storeFailed, created>>
httpVars == <<req, res, nextCalls, queries, pc>>

NoCall == [op |-> "none"]

\* the accessor and the tables in the specifications that do not use them
TeamIdle ==
    /\ teams = << >>
    /\ users = << >>
    /\ initialized = FALSE
    /\ id = Undefined
    /\ subdomain = Undefined
    /\ customer_id = Undefined
    /\ last = NoCall
    /\ everReady = FALSE
    /\ storeFailed = FALSE
    /\ created = Undefined

(***************************************************************************)
(* The response object: express Response, recorded as the calls made on it.*)
(***************************************************************************)
ResStatus(code) == [call |-> "status", code |-> code]
ResJson(body) == [call |-> "json", body |-> body]
ResSend == [call |-> "send"]
ResEnd == [call |-> "end"]
ResSendStatus(code) == [call |-> "sendStatus", code |-> code]

\* the calls that send a response
IsSend(c) == c.call \in {"json", "send", "end", "sendStatus"}
\* the calls that write the status code
IsStatus(c) == c.call \in {"status", "sendStatus"}
Sends(r) == SelectSeq(r, IsSend)
StatusWrites(r) == SelectSeq(r, IsStatus)
\* the status code in force when the k-th call of r was made (200 by default)
StatusAt(r, k) ==
    LET w == StatusWrites(SubSeq(r, 1, k))
    IN IF w = << >> THEN 200 ELSE w[Len(w)].code

(***************************************************************************)
(* verifyTeamName (team.model.ts 175-192).                                 *)
(***************************************************************************)
Digits == {"0", "1", "2", "3", "4", "5", "6", "7", "8", "9"}
Lowercase == {"a", "b", "c", "d", "e", "f", "g", "h", "i", "j", "k", "l", "m",
              "n", "o", "p", "q", "r", "s", "t", "u", "v", "w", "x", "y", "z"}
\* the character class [0-9a-z\-]
TeamNameClass == Digits \cup Lowercase \cup {"-"}

\* characters drawn for body.newURL: inside the class and outside it
URLChars == {"a", "9", "-", "A", "\n"}
\* body.newURL is `newURL?: string`: missing, or a string
NewURLs == {Undefined} \cup {Str(s) : s \in StringsUpTo(URLChars, MaxURLLen)}

REQUIRED_MSG == "newURL is required"
CHARSET_MSG == "newURL can only conatain lowercase letters, numbers and dashes"

\* a regex that finds the class anywhere in the input: /[0-9a-z\-]+/
TeamNameRegexUnanchored(v) ==
    LET s == ToString(v)
    IN \E i \in 1..Len(s) : s[i] \in TeamNameClass

\* /^[0-9a-z\-]+$/.test(v): one or more characters, each of the class, from
\* the start of the input to its end (no multiline flag)
TeamNameRegexTest(v) ==
    LET s == ToString(v)
    IN /\ Len(s) >= 1
       /\ \A i \in 1..Len(s) : s[i] \in TeamNameClass

\* the second check made an `else if` of the first
VerifyTeamNameShortCircuit ==
    /\ pc = "verifyTeamName"
    /\ LET required == ~Truthy(req.newURL)
           charset == ~required /\ ~TeamNameRegexTest(req.newURL)
           passed == ~required /\ ~charset
           r1 == IF required
                 THEN <<ResStatus(400), ResJson([error |-> REQUIRED_MSG])>>
                 ELSE << >>
           r2 == IF charset
                 THEN <<ResStatus(400), ResJson([error |-> CHARSET_MSG])>>
                 ELSE << >>
       IN /\ res' = res \o r1 \o r2
          /\ nextCalls' = IF passed THEN nextCalls + 1 ELSE nextCalls
    /\ pc' = "done"
    /\ UNCHANGED <<req, queries>>
    /\ UNCHANGED teamVars

VerifyTeamName ==
    /\ pc = "verifyTeamName"
    /\ LET required == ~Truthy(req.newURL)
           charset == ~TeamNameRegexTest(req.newURL)
           passed == ~required /\ ~charset
           r1 == IF required
                 THEN <<ResStatus(400), ResJson([error |-> REQUIRED_MSG])>>
                 ELSE << >>
           r2 == IF charset
                 THEN <<ResStatus(400), ResJson([error |-> CHARSET_MSG])>>
                 ELSE << >>
       IN /\ res' = res \o r1 \o r2
          /\ nextCalls' = IF passed THEN nextCalls + 1 ELSE nextCalls
    /\ pc' = "done"
    /\ UNCHANGED <<req, queries>>
    /\ UNCHANGED teamVars

InitTeamName ==
    /\ TeamIdle
    /\ req \in {[newURL |-> u] : u \in NewURLs}
    /\ res = << >>
    /\ nextCalls = 0
    /\ queries = 0
    /\ pc = "verifyTeamName"

NextTeamName == VerifyTeamName

SpecTeamName == InitTeamName /\ [][NextTeamName]_vars

(***************************************************************************)
(* Claims about verifyTeamName, checked under SpecTeamName.                *)
(***************************************************************************)
\* body.newURL is a non-empty string made of [0-9a-z-] only
IsValidTeamName(v) ==
    /\ v.t = "string"
    /\ Len(v.s) >= 1
    /\ \A i \in 1..Len(v.s) : v.s[i] \in TeamNameClass
\* body.newURL is a string holding a character outside [0-9a-z-]
HasForeignChar(v) ==
    /\ v.t = "string"
    /\ \E i \in 1..Len(v.s) : v.s[i] \notin TeamNameClass
\* every response sent went out with status 400
AllSent400 ==
    \A k \in 1..Len(res) : IsSend(res[k]) => StatusAt(res, k) = 400
\* the error messages of the responses sent, in order
SentErrors == [k \in 1..Len(Sends(res)) |-> Sends(res)[k].body.error]

\* C4: verifyTeamName calls next() exactly once and writes no response if and
\* only if body.newURL is a non-empty string of characters from [0-9a-z-];
\* for every newURL with a character outside the class it responds with
\* status 400 and never calls next().
C4_ValidNamePassesOnly ==
    pc = "done" =>
        /\ (nextCalls = 1 /\ res = << >>) <=> IsValidTeamName(req.newURL)
        /\ HasForeignChar(req.newURL) =>
               /\ Len(Sends(res)) >= 1
               /\ AllSent400
               /\ nextCalls = 0

C4_Witness ==
    /\ pc = "done"
    /\ req.newURL = Str(<<"a", "9", "-">>)
    /\ nextCalls = 1
    /\ res = << >>

\* C9 as claimed: with newURL missing or empty both checks fail and two
\* responses are written in order (400 "required", then 400 charset) and
\* next() is not called; with newURL non-empty but holding a character
\* outside [0-9a-z-] exactly one response (the charset one) is written.
C9_Original ==
    pc = "done" =>
        /\ ~Truthy(req.newURL) =>
               /\ SentErrors = <<REQUIRED_MSG, CHARSET_MSG>>
               /\ AllSent400
               /\ nextCalls = 0
        /\ (Truthy(req.newURL) /\ HasForeignChar(req.newURL)) =>
               /\ SentErrors = <<CHARSET_MSG>>
               /\ AllSent400

\* C9 as amended: the two checks are evaluated independently; with newURL the
\* empty string both fail and two responses are written in order (400
\* "required", then 400 charset); with newURL missing only the first check
\* fails, the regex being tested against the text "undefined", and exactly
\* one response (400 "required") is written; next() is called in neither
\* case; with newURL non-empty but holding a character outside [0-9a-z-]
\* exactly one response (the charset one) is written.
C9_IndependentChecks ==
    pc = "done" =>
        /\ req.newURL = Str(<< >>) =>
               /\ SentErrors = <<REQUIRED_MSG, CHARSET_MSG>>
               /\ AllSent400
               /\ nextCalls = 0
        /\ req.newURL = Undefined =>
               /\ SentErrors = <<REQUIRED_MSG>>
               /\ AllSent400
               /\ nextCalls = 0
        /\ (Truthy(req.newURL) /\ HasForeignChar(req.newURL)) =>
               /\ SentErrors = <<CHARSET_MSG>>
               /\ AllSent400
               /\ nextCalls = 0

C9_Witness ==
    /\ pc = "done"
    /\ req.newURL = Str(<< >>)
    /\ Len(Sends(res)) = 2

(***************************************************************************)
(* verifySubdomain (team.model.ts 206-236).                                *)
(***************************************************************************)
\* a row of the teams table
Row(i, sd, cust) == [id |-> Num(i), subdomain |-> sd, customer_id |-> cust]

SchemeSep == <<":", "/", "/">>
Dot == <<".">>
WWW == <<"w", "w", "w">>

\* characters drawn for the host of an Origin header
HostChars == {"w", "a", "."}
Hosts == StringsUpTo(HostChars, MaxHostLen)
Schemes == {<<"h", "t", "t", "p">>, <<"h", "t", "t", "p", "s">>}
\* Origin headers: scheme://host, and a host alone (no "://" in it)
Origins == {Str(sc \o SchemeSep \o h) : sc \in Schemes, h \in Hosts}
               \cup {Str(h) : h \in Hosts}

Emails == {"ann@x.io", "bob@x.io"}
\* req.user: unset, or the authenticated user
ReqUsers == {Undefined} \cup {[email |-> e] : e \in Emails}

\* the teams table the middleware runs against
SubdomainTeams ==
    {<< >>, <<Row(1, Str(<<"a">>), Null), Row(2, Str(WWW), Null)>>}
UserRows == {[email |-> e, team_id |-> tid] : e \in Emails, tid \in {Null, Num(1), Num(2)}}
SubdomainUsers == UNION {[1..k -> UserRows] : k \in 0..MaxUsers}

\* origin.split("://")[1], Undefined when the array has no second element
HostPart(origin) ==
    LET parts == Split(origin.s, SchemeSep)
    IN IF Len(parts) >= 2 THEN Str(parts[2]) ELSE Undefined

\* host.split(".")[0]
FirstLabel(host) == Str(Split(host.s, Dot)[1])

\* the guard without the "www" exemption
NeedsLookupNoWWW(label) == Truthy(label)

\* subdomain && subdomain !== "www"
NeedsLookup(label) == Truthy(label) /\ label # Str(WWW)

\* SELECT teams.id FROM users LEFT JOIN teams ON users.team_id = teams.id
\*   WHERE teams.subdomain = $1 AND users.email = $2
\* as the set of ids of the rows returned (their order is the store's)
QueryTeamIds(label, email) ==
    {teams[j].id : j \in {j \in 1..Len(teams) :
        /\ teams[j].subdomain = label
        /\ \E k \in 1..Len(users) :
              /\ users[k].team_id = teams[j].id
              /\ users[k].email = email}}

\* synchronous part: up to the `await` on the query, or to the end
VerifySubdomainStart ==
    /\ pc = "verifySubdomain"
    /\ LET host == HostPart(req.origin)
       IN IF host = Undefined
          THEN \* .split of undefined: TypeError outside the try block
               /\ pc' = "threw"
               /\ UNCHANGED <<res, nextCalls, queries>>
          ELSE IF NeedsLookup(FirstLabel(host))
          THEN IF req.user = Undefined
               THEN \* req.user.email: TypeError inside the try block
                    /\ res' = res \o <<ResStatus(500), ResEnd>>
                    /\ pc' = "done"
                    /\ UNCHANGED <<nextCalls, queries>>
               ELSE /\ queries' = queries + 1
                    /\ pc' = "awaitQuery"
                    /\ UNCHANGED <<res, nextCalls>>
          ELSE /\ nextCalls' = nextCalls + 1
               /\ pc' = "done"
               /\ UNCHANGED <<res, queries>>
    /\ UNCHANGED <<req, teamVars>>

QueryDone(outcome, rows) == [op |-> "query", outcome |-> outcome, rows |-> rows]

\* an empty result set handled like a match
VerifySubdomainResolvedNoCheck ==
    /\ pc = "awaitQuery"
    /\ LET label == FirstLabel(HostPart(req.origin))
           data == QueryTeamIds(label, req.user.email)
       IN /\ last' = QueryDone("ok", data)
          /\ \E i \in data \cup {Null} :
                /\ req' = [req EXCEPT !.team = [id |-> i, subdomain |-> label]]
                /\ nextCalls' = nextCalls + 1
                /\ UNCHANGED res
    /\ pc' = "done"
    /\ UNCHANGED <<teams, users, initialized, id, subdomain, customer_id,
                   everReady, storeFailed, created, queries>>

\* the query resolves with its rows
VerifySubdomainResolved ==
    /\ pc = "awaitQuery"
    /\ LET label == FirstLabel(HostPart(req.origin))
           data == QueryTeamIds(label, req.user.email)
       IN /\ last' = QueryDone("ok", data)
          /\ IF data = {}
             THEN /\ res' = res \o <<ResStatus(403), ResEnd>>
                  /\ UNCHANGED <<req, nextCalls>>
             ELSE \E i \in data :
                     /\ req' = [req EXCEPT !.team = [id |-> i, subdomain |-> label]]
                     /\ nextCalls' = nextCalls + 1
                     /\ UNCHANGED res
    /\ pc' = "done"
    /\ UNCHANGED <<teams, users, initialized, id, subdomain, customer_id,
                   everReady, storeFailed, created, queries>>

\* the query rejects
VerifySubdomainRejected ==
    /\ pc = "awaitQuery"
    /\ last' = QueryDone("error", {})
    /\ res' = res \o <<ResStatus(500), ResEnd>>
    /\ pc' = "done"
    /\ UNCHANGED <<teams, users, initialized, id, subdomain, customer_id,
                   everReady, storeFailed, created, req, nextCalls, queries>>

InitSubdomain ==
    /\ teams \in SubdomainTeams
    /\ users \in SubdomainUsers
    /\ initialized = FALSE
    /\ id = Undefined
    /\ subdomain = Undefined
    /\ customer_id = Undefined
    /\ last = NoCall
    /\ everReady = FALSE
    /\ storeFailed = FALSE
    /\ created = Undefined
    /\ req \in {[origin |-> o, user |-> u, team |-> Undefined] :
                   o \in Origins, u \in ReqUsers}
    /\ res = << >>
    /\ nextCalls = 0
    /\ queries = 0
    /\ pc = "verifySubdomain"

NextSubdomain ==
    \/ VerifySubdomainStart
    \/ VerifySubdomainResolved
    \/ VerifySubdomainRejected

SpecSubdomain == InitSubdomain /\ [][NextSubdomain]_vars

(***************************************************************************)
(* Claims about verifySubdomain, checked under SpecSubdomain.              *)
(***************************************************************************)
\* the Origin header is scheme://host
IsSchemeHost(o) ==
    \E sc \in Schemes :
        /\ Len(o) >= Len(sc) + 3
        /\ SubSeq(o, 1, Len(sc) + 3) = sc \o SchemeSep
\* its host
OriginHost(o) ==
    LET sc == CHOOSE sc \in Schemes :
                  /\ Len(o) >= Len(sc) + 3
                  /\ SubSeq(o, 1, Len(sc) + 3) = sc \o SchemeSep
    IN SubSeq(o, Len(sc) + 4, Len(o))
\* the first label of a host: what precedes its first ".", all of it if none
LeadingLabel(h) ==
    LET dots == {i \in 1..Len(h) : h[i] = "."}
    IN IF dots = {} THEN h
       ELSE SubSeq(h, 1, (CHOOSE i \in dots : \A j \in dots : i <= j) - 1)
\* the first host label of the request's Origin header
OriginLabel == LeadingLabel(OriginHost(req.origin.s))

\* the join of users and teams has a row for subdomain L and this email
JoinHasRow(L, email) ==
    \E j \in 1..Len(teams), k \in 1..Len(users) :
        /\ teams[j].subdomain = Str(L)
        /\ users[k].team_id = teams[j].id
        /\ users[k].email = email

\* C2: for an Origin scheme://host whose first host label is non-empty and
\* not "www", if the users/teams join returns no row for (label, user email),
\* the response is ended with status 403, next() is never called and no team
\* is attached to the request.
C2_NoJoinRowIs403 ==
    (/\ pc = "done"
     /\ IsSchemeHost(req.origin.s)
     /\ OriginLabel # << >> /\ OriginLabel # WWW
     /\ req.user # Undefined
     /\ last = QueryDone("ok", {})
     /\ ~JoinHasRow(OriginLabel, req.user.email))
    => /\ res = <<ResStatus(403), ResEnd>>
       /\ nextCalls = 0
       /\ req.team = Undefined

C2_Witness ==
    /\ pc = "done"
    /\ req.origin = Str(<<"h", "t", "t", "p", "s">> \o SchemeSep \o <<"a", ".", "w">>)
    /\ req.user = [email |-> "bob@x.io"]
    /\ Len(teams) = 2
    /\ users = <<[email |-> "ann@x.io", team_id |-> Num(1)]>>
    /\ res = <<ResStatus(403), ResEnd>>

\* C3: when the first host label of the Origin header is empty or "www", no
\* store query is issued, next() is called exactly once, no response status
\* is written and req.team is left unset.
C3_RootTenantSkipsLookup ==
    (/\ pc # "verifySubdomain"
     /\ IsSchemeHost(req.origin.s)
     /\ OriginLabel \in {<< >>, WWW})
    => /\ pc = "done"
       /\ queries = 0
       /\ last = NoCall
       /\ nextCalls = 1
       /\ res = << >>
       /\ req.team = Undefined

C3_Witness ==
    /\ pc = "done"
    /\ req.origin = Str(<<"h", "t", "t", "p", "s">> \o SchemeSep \o WWW)
    /\ Len(teams) = 2
    /\ users = <<[email |-> "ann@x.io", team_id |-> Num(2)]>>
    /\ req.user = [email |-> "ann@x.io"]
    /\ nextCalls = 1

(***************************************************************************)
(* postSave (save.post.ts 11-22).                                          *)
(***************************************************************************)
\* a || b
OrElse(a, b) == IF Truthy(a) THEN a ELSE b

\* the body a call on the response object sends; res.sendStatus(code) sends
\* the status message of the code as text, res.send() and res.end() nothing
EmptyBody == [kind |-> "empty"]
JsonBody(b) == [kind |-> "json", json |-> b]
TextBody(s) == [kind |-> "text", text |-> s]
StatusMessage(code) ==
    CASE code = 200 -> "OK"
      [] code = 400 -> "Bad Request"
      [] code = 403 -> "Forbidden"
      [] code = 500 -> "Internal Server Error"
BodyOf(c) ==
    CASE c.call = "json" -> JsonBody(c.body)
      [] c.call = "sendStatus" -> TextBody(StatusMessage(c.code))
      [] OTHER -> EmptyBody

\* the values IntegrationModel.init / save raise: an optional status and an
\* optional message
ErrStatuses == {Undefined, Num(0), Num(400), Num(404), Num(409), Num(500)}
ErrMessages == {Undefined, Str(<< >>), Str(<<"d", "u", "p", "l", "i", "c", "a", "t", "e">>), Str(<<"g", "o", "n", "e">>)}
Errors == {[status |-> s, message |-> m] : s \in ErrStatuses, m \in ErrMessages}
\* reading .id of an undefined req.team
TypeErrorNoTeam ==
    [status |-> Undefined,
     message |-> Str(
        <<"C", "a", "n", "n", "o", "t", " ", "r", "e", "a", "d", " ", "p", "r", "o", "p", "e", "r", "t", "y", " ">> \o
        <<"'", "i", "d", "'", " ", "o", "f", " ", "u", "n", "d", "e", "f", "i", "n", "e", "d">>)]

SaveTeams == {Undefined,
              [id |-> Num(1), subdomain |-> Str(<<"a">>)],
              [id |-> Num(7), subdomain |-> Str(<<"a">>)]}
SaveNames == {"slack", "twilio"}

Thrown(stage, e) == [op |-> "throw", stage |-> stage, e |-> e]

\* a catch block that always answers with the JSON error body
PostSaveCatchAlwaysJson(stage, e) ==
    /\ last' = Thrown(stage, e)
    /\ res' = res \o <<ResStatus(OrElse(e.status, Num(500)).n),
                       ResJson([error |-> e.message])>>
    /\ pc' = "done"

\* catch (e): console.error(e); res.status(e.status || 500);
\* (e.status && e.message) ? res.json({ error: e.message }) : res.send()
PostSaveCatch(stage, e) ==
    /\ last' = Thrown(stage, e)
    /\ res' = res \o <<ResStatus(OrElse(e.status, Num(500)).n),
                       IF Truthy(e.status) /\ Truthy(e.message)
                       THEN ResJson([error |-> e.message])
                       ELSE ResSend>>
    /\ pc' = "done"

saveFrame == <<teams, users, initialized, id, subdomain, customer_id, everReady,
               storeFailed, created, req, nextCalls, queries>>

\* new IntegrationModel(req.app.get("db"), req.team.id, req.body.name)
PostSaveConstruct ==
    /\ pc = "postSave"
    /\ IF req.team = Undefined
       THEN PostSaveCatch("construct", TypeErrorNoTeam)
       ELSE /\ pc' = "init"
            /\ UNCHANGED <<last, res>>
    /\ UNCHANGED saveFrame

\* await integration.init() resolves
PostSaveInitOk ==
    /\ pc = "init"
    /\ pc' = "save"
    /\ UNCHANGED <<last, res>>
    /\ UNCHANGED saveFrame

\* await integration.init() rejects
PostSaveInitFails ==
    /\ pc = "init"
    /\ \E e \in Errors : PostSaveCatch("init", e)
    /\ UNCHANGED saveFrame

\* await integration.save(...) resolves; res.sendStatus(200)
PostSaveSaveOk ==
    /\ pc = "save"
    /\ res' = res \o <<ResSendStatus(200)>>
    /\ pc' = "done"
    /\ UNCHANGED last
    /\ UNCHANGED saveFrame

\* await integration.save(...) rejects
PostSaveSaveFails ==
    /\ pc = "save"
    /\ \E e \in Errors : PostSaveCatch("save", e)
    /\ UNCHANGED saveFrame

InitSave ==
    /\ TeamIdle
    /\ req \in {[team |-> tm, name |-> n] : tm \in SaveTeams, n \in SaveNames}
    /\ res = << >>
    /\ nextCalls = 0
    /\ queries = 0
    /\ pc = "postSave"

NextSave ==
    \/ PostSaveConstruct
    \/ PostSaveInitOk
    \/ PostSaveInitFails
    \/ PostSaveSaveOk
    \/ PostSaveSaveFails

SpecSave == InitSave /\ [][NextSave]_vars
(***************************************************************************)
(* Claims about postSave, checked under SpecSave.                          *)
(***************************************************************************)
\* the status and the body of the response sent by the last call on res
SentStatus == StatusAt(res, Len(res))
SentBody == BodyOf(res[Len(res)])
\* a field of the error is present: set to a value that is not falsy
Present(v) == Truthy(v)
\* the status and the body the claim gives the response to an error e
ErrorStatus(e) == IF Present(e.status) THEN e.status.n ELSE 500
ErrorBody(e) ==
    IF Present(e.status) /\ Present(e.message)
    THEN JsonBody([error |-> e.message])
    ELSE EmptyBody

NameChars == {"a", "b"}
\* the subdomains passed to create and setSubdomain
Names == [1..1 -> NameChars]
\* the host strings passed to findTeamByURL: a leading label, then nothing
\* or "." and the rest of the host
HostRests == {<< >>, <<".">>, <<".", "a">>, <<".", "b", ".", "a">>}
TeamHosts == {n \o r : n \in Names \cup {<< >>}, r \in HostRests}
\* the customer ids passed to setCustomerID
CustomerIDs == {Str(<<"c", "u", "s">>)}
\* the teams table when the accessor is constructed
SeedTeams ==
    {<< >>,
     <<Row(1, Str(<<"a">>), Null)>>,
     <<Row(1, Str(<<"b">>), Str(<<"c", "u", "s">>))>>}
\* the id given to the constructor, if any
SeedIds == {Undefined} \cup {Num(n) : n \in 1..MaxTeams}

\* db.teams.findOne({ id }): the row, null when none matches
FindOneById(i) ==
    IF i.t = "number" /\ i.n \in 1..Len(teams) THEN teams[i.n] ELSE Null

\* db.teams.findOne({ subdomain }): the rows it may return, null when none
\* matches (the store picks among several matches)
FindOneBySubdomain(sd) ==
    LET hits == {j \in 1..Len(teams) : teams[j].subdomain = sd}
    IN IF hits = {} THEN {Null} ELSE {teams[j] : j \in hits}

\* db.teams.update({ id }, fields): the table after the update
UpdateById(i, field, value) ==
    [j \in 1..Len(teams) |->
        IF teams[j].id = i THEN [teams[j] EXCEPT ![field] = value] ELSE teams[j]]

\* one write issued to the persistence gateway
InsertWrite(sd) == [op |-> "insert", field |-> "subdomain", value |-> sd]
UpdateWrite(i, field, value) ==
    [op |-> "update", filter |-> i, field |-> field, value |-> value]

\* the record of one call: its outcome is "ok", "NO_INIT" (the ModelError of
\* an uninitialized accessor), "ModelError" (a wrapped error) or "error"
Call(op, arg, store, outcome, value, writes) ==
    [op |-> op, arg |-> arg, store |-> store, outcome |-> outcome,
     value |-> value, writes |-> writes, found |-> Undefined, warned |-> FALSE]

accessorFields == <<initialized, id, subdomain, customer_id>>

\* static available(db, subdomain)
Available(sd, fault) ==
    /\ IF fault
       THEN /\ last' = Call("available", sd, "fault", "ModelError", Undefined, << >>)
            /\ storeFailed' = TRUE
       ELSE /\ \E found \in FindOneBySubdomain(sd) :
                 last' = Call("available", sd, "ok", "ok", found = Null, << >>)
            /\ UNCHANGED storeFailed
    /\ UNCHANGED <<teams, users, accessorFields, everReady, created, httpVars>>

\* a lookup by the last label of the host
FindTeamByURLLastLabel(url, fault) ==
    /\ IF fault
       THEN /\ last' = Call("findTeamByURL", url, "fault", "ModelError", Undefined, << >>)
            /\ storeFailed' = TRUE
       ELSE /\ LET parts == Split(url, Dot)
               IN \E found \in FindOneBySubdomain(Str(parts[Len(parts)])) :
                     last' = Call("findTeamByURL", url, "ok", "ok", found, << >>)
            /\ UNCHANGED storeFailed
    /\ UNCHANGED <<teams, users, accessorFields, everReady, created, httpVars>>

\* static findTeamByURL(db, url)
FindTeamByURL(url, fault) ==
    /\ IF fault
       THEN /\ last' = Call("findTeamByURL", url, "fault", "ModelError", Undefined, << >>)
            /\ storeFailed' = TRUE
       ELSE /\ \E found \in FindOneBySubdomain(Str(Split(url, Dot)[1])) :
                 last' = Call("findTeamByURL", url, "ok", "ok", found, << >>)
            /\ UNCHANGED storeFailed
    /\ UNCHANGED <<teams, users, accessorFields, everReady, created, httpVars>>

\* init()
TeamInit(fault) ==
    /\ IF fault
       THEN /\ last' = Call("init", Undefined, "fault", "ModelError", Undefined, << >>)
            /\ storeFailed' = TRUE
            /\ UNCHANGED <<accessorFields, everReady>>
       ELSE LET team == FindOneById(id)
                done == Call("init", Undefined, "ok", "ok", id, << >>)
            IN IF team = Null
               THEN \* team.subdomain on null: TypeError, caught and wrapped
                    /\ last' = [Call("init", Undefined, "ok", "ModelError",
                                     Undefined, << >>) EXCEPT !.found = Null]
                    /\ UNCHANGED <<accessorFields, everReady, storeFailed>>
               ELSE /\ IF Truthy(team.subdomain)
                       THEN /\ subdomain' = team.subdomain
                            /\ customer_id' = team.customer_id
                            /\ last' = [done EXCEPT !.found = team]
                       ELSE /\ UNCHANGED <<subdomain, customer_id>>
                            /\ last' = [done EXCEPT !.found = team, !.warned = TRUE]
                    /\ initialized' = TRUE
                    /\ everReady' = TRUE
                    /\ UNCHANGED <<id, storeFailed>>
    /\ UNCHANGED <<teams, users, created, httpVars>>

\* create(newURL); the insert resolves with the new row ("ok"), resolves
\* with nothing ("null") or rejects ("fault")
TeamCreate(newURL, store) ==
    /\ Len(teams) < MaxTeams
    /\ IF store = "ok"
       THEN LET newId == Len(teams) + 1
            IN /\ teams' = Append(teams, Row(newId, Str(newURL), Null))
               /\ id' = Num(newId)
               /\ initialized' = TRUE
               /\ everReady' = TRUE
               /\ created' = [id |-> newId, subdomain |-> newURL]
               /\ last' = Call("create", Str(newURL), "ok", "ok", Num(newId),
                               <<InsertWrite(Str(newURL))>>)
               /\ UNCHANGED storeFailed
       ELSE /\ last' = Call("create", Str(newURL), store, "ModelError", Undefined,
                            <<InsertWrite(Str(newURL))>>)
            /\ storeFailed' = TRUE
            /\ UNCHANGED <<teams, id, initialized, everReady, created>>
    /\ UNCHANGED <<users, subdomain, customer_id, httpVars>>

\* getSubdomain()
GetSubdomain ==
    /\ last' = IF initialized
               THEN Call("getSubdomain", Undefined, "none", "ok", subdomain, << >>)
               ELSE Call("getSubdomain", Undefined, "none", "NO_INIT", Undefined, << >>)
    /\ UNCHANGED <<teams, users, accessorFields, everReady, storeFailed, created,
                   httpVars>>

\* a setter that swallows the failure of its update
SetSubdomainSwallow(newURL, fault) ==
    /\ IF initialized
       THEN /\ subdomain' = Str(newURL)
            /\ IF fault
               THEN /\ last' = Call("setSubdomain", Str(newURL), "fault", "ok",
                                    Undefined,
                                    <<UpdateWrite(id, "subdomain", Str(newURL))>>)
                    /\ storeFailed' = TRUE
                    /\ UNCHANGED teams
               ELSE /\ teams' = UpdateById(id, "subdomain", Str(newURL))
                    /\ last' = Call("setSubdomain", Str(newURL), "ok", "ok", Undefined,
                                    <<UpdateWrite(id, "subdomain", Str(newURL))>>)
                    /\ UNCHANGED storeFailed
       ELSE /\ last' = Call("setSubdomain", Str(newURL), "none", "NO_INIT",
                            Undefined, << >>)
            /\ UNCHANGED <<teams, subdomain, storeFailed>>
    /\ UNCHANGED <<users, initialized, id, customer_id, everReady, created, httpVars>>

\* setSubdomain(newURL)
SetSubdomain(newURL, fault) ==
    /\ IF initialized
       THEN /\ subdomain' = Str(newURL)
            /\ IF fault
               THEN /\ last' = Call("setSubdomain", Str(newURL), "fault", "ModelError",
                                    Undefined,
                                    <<UpdateWrite(id, "subdomain", Str(newURL))>>)
                    /\ storeFailed' = TRUE
                    /\ UNCHANGED teams
               ELSE /\ teams' = UpdateById(id, "subdomain", Str(newURL))
                    /\ last' = Call("setSubdomain", Str(newURL), "ok", "ok", Undefined,
                                    <<UpdateWrite(id, "subdomain", Str(newURL))>>)
                    /\ UNCHANGED storeFailed
       ELSE /\ last' = Call("setSubdomain", Str(newURL), "none", "NO_INIT",
                            Undefined, << >>)
            /\ UNCHANGED <<teams, subdomain, storeFailed>>
    /\ UNCHANGED <<users, initialized, id, customer_id, everReady, created, httpVars>>

\* getCustomerID()
GetCustomerID ==
    /\ last' = IF initialized
               THEN Call("getCustomerID", Undefined, "none", "ok", customer_id, << >>)
               ELSE Call("getCustomerID", Undefined, "none", "NO_INIT", Undefined, << >>)
    /\ UNCHANGED <<teams, users, accessorFields, everReady, storeFailed, created,
                   httpVars>>

\* a setter without the initialization guard
SetCustomerIDNoGuard(cust, fault) ==
    /\ customer_id' = cust
    /\ IF fault
       THEN /\ last' = Call("setCustomerID", cust, "fault", "ModelError", Undefined,
                            <<UpdateWrite(id, "customer_id", cust)>>)
            /\ storeFailed' = TRUE
            /\ UNCHANGED teams
       ELSE /\ teams' = UpdateById(id, "customer_id", cust)
            /\ last' = Call("setCustomerID", cust, "ok", "ok", Undefined,
                            <<UpdateWrite(id, "customer_id", cust)>>)
            /\ UNCHANGED storeFailed
    /\ UNCHANGED <<users, initialized, id, subdomain, everReady, created, httpVars>>

\* setCustomerID(customer_id)
SetCustomerID(cust, fault) ==
    /\ IF initialized
       THEN /\ customer_id' = cust
            /\ IF fault
               THEN /\ last' = Call("setCustomerID", cust, "fault", "ModelError",
                                    Undefined,
                                    <<UpdateWrite(id, "customer_id", cust)>>)
                    /\ storeFailed' = TRUE
                    /\ UNCHANGED teams
               ELSE /\ teams' = UpdateById(id, "customer_id", cust)
                    /\ last' = Call("setCustomerID", cust, "ok", "ok", Undefined,
                                    <<UpdateWrite(id, "customer_id", cust)>>)
                    /\ UNCHANGED storeFailed
       ELSE /\ last' = Call("setCustomerID", cust, "none", "NO_INIT", Undefined, << >>)
            /\ UNCHANGED <<teams, customer_id, storeFailed>>
    /\ UNCHANGED <<users, initialized, id, subdomain, everReady, created, httpVars>>

\* hasActiveSubscription(); the billing check answers a boolean or raises,
\* and what it raises is not wrapped
HasActiveSubscription(answer) ==
    /\ last' = IF initialized
               THEN IF answer = "error"
                    THEN Call("hasActiveSubscription", customer_id, "none", "error",
                              Undefined, << >>)
                    ELSE Call("hasActiveSubscription", customer_id, "none", "ok",
                              answer = "active", << >>)
               ELSE Call("hasActiveSubscription", Undefined, "none", "NO_INIT",
                         Undefined, << >>)
    /\ UNCHANGED <<teams, users, accessorFields, everReady, storeFailed, created,
                   httpVars>>

\* new TeamModel(db, id?)
InitTeam ==
    /\ teams \in SeedTeams
    /\ users = << >>
    /\ initialized = FALSE
    /\ id \in SeedIds
    /\ subdomain = Undefined
    /\ customer_id = Undefined
    /\ last = NoCall
    /\ everReady = FALSE
    /\ storeFailed = FALSE
    /\ created = Undefined
    /\ req = Undefined
    /\ res = << >>
    /\ nextCalls = 0
    /\ queries = 0
    /\ pc = "accessor"

NextTeam ==
    \/ \E sd \in Names, fault \in BOOLEAN : Available(Str(sd), fault)
    \/ \E url \in TeamHosts, fault \in BOOLEAN : FindTeamByURL(url, fault)
    \/ \E fault \in BOOLEAN : TeamInit(fault)
    \/ \E newURL \in Names, store \in {"ok", "null", "fault"} : TeamCreate(newURL, store)
    \/ GetSubdomain
    \/ \E newURL \in Names, fault \in BOOLEAN : SetSubdomain(newURL, fault)
    \/ GetCustomerID
    \/ \E cust \in CustomerIDs, fault \in BOOLEAN : SetCustomerID(cust, fault)
    \/ \E answer \in {"active", "inactive", "error"} : HasActiveSubscription(answer)

SpecTeam == InitTeam /\ [][NextTeam]_vars
(***************************************************************************)
(* Claims about TeamModel, checked under SpecTeam.                         *)
(***************************************************************************)
\* the calls guarded by `if (this.initialized)`
GuardedOps == {"getSubdomain", "getCustomerID", "setSubdomain", "setCustomerID",
               "hasActiveSubscription"}

\* C1: on an accessor on which neither init() nor create() has completed
\* successfully, every call of getSubdomain, getCustomerID, setSubdomain,
\* setCustomerID or hasActiveSubscription fails with the "not initialized"
\* ModelError, issues no store write and leaves the teams table and the
\* in-memory subdomain and customer_id unchanged.
C1_UninitializedCallsFail ==
    [][(~everReady /\ last'.op \in GuardedOps)
       => /\ last'.outcome = "NO_INIT"
          /\ last'.writes = << >>
          /\ teams' = teams
          /\ subdomain' = subdomain
          /\ customer_id' = customer_id]_vars

C1_Witness ==
    /\ ~everReady
    /\ last.op = "setCustomerID"
    /\ last.outcome = "NO_INIT"
    /\ Len(teams) = 1

\* C5: after create(s) has succeeded and returned id i, findTeamByURL(host)
\* for a host whose leading label before the first "." is s returns the team
\* row whose id is i, given that subdomains are unique in the table and row
\* i still holds s.
UniqueSubdomains ==
    \A j, k \in 1..Len(teams) : teams[j].subdomain = teams[k].subdomain => j = k

C5_CreateThenFindByURL ==
    (/\ last.op = "findTeamByURL"
     /\ last.outcome = "ok"
     /\ created # Undefined
     /\ LeadingLabel(last.arg) = created.subdomain
     /\ UniqueSubdomains
     /\ teams[created.id].subdomain = Str(created.subdomain))
    => /\ last.value # Null
       /\ last.value.id = Num(created.id)

C5_Witness ==
    /\ last.op = "findTeamByURL"
    /\ last.outcome = "ok"
    /\ last.arg = <<"b", ".", "b", ".", "a">>
    /\ created = [id |-> 2, subdomain |-> <<"b">>]
    /\ UniqueSubdomains
    /\ last.value = Row(2, Str(<<"b">>), Null)

\* C7 as claimed: init(), when findOne finds no row (returns null), does not
\* fail: it logs a warning, marks the accessor initialized and returns the
\* accessor's id unchanged.
C7_Original ==
    (last.op = "init" /\ id.t = "number" /\ last.store = "ok" /\ last.found = Null)
    => /\ last.outcome = "ok"
       /\ last.warned
       /\ initialized
       /\ last.value = id

\* C8: every mutating call that passes the initialization guard (create,
\* setSubdomain, setCustomerID) issues exactly one write to the persistence
\* gateway, one teams.insert for create and one teams.update filtered by the
\* accessor's id for a setter, with no retry; and if that write fails the
\* failure is rethrown as a wrapped ModelError.
C8_OneWritePerMutation ==
    (last.op \in {"create", "setSubdomain", "setCustomerID"}
        /\ last.outcome # "NO_INIT")
    => /\ Len(last.writes) = 1
       /\ last.op = "create" => last.writes[1] = InsertWrite(last.arg)
       /\ last.op = "setSubdomain" =>
              last.writes[1] = UpdateWrite(id, "subdomain", last.arg)
       /\ last.op = "setCustomerID" =>
              last.writes[1] = UpdateWrite(id, "customer_id", last.arg)
       /\ last.store # "ok" => last.outcome = "ModelError"

C8_Witness ==
    /\ last.op = "setSubdomain"
    /\ last.store = "fault"
    /\ last.outcome = "ModelError"
    /\ last.writes = <<UpdateWrite(Num(2), "subdomain", Str(<<"b">>))>>

\* C10 as claimed: over init(), create(s) and setSubdomain(v) calls in which
\* no store call fails, whenever the accessor is initialized getSubdomain()
\* returns the subdomain stored in the team row with the accessor's id.
C10_Original ==
    (/\ last.op = "getSubdomain"
     /\ initialized
     /\ ~storeFailed)
    => /\ last.outcome = "ok"
       /\ FindOneById(id) # Null
       /\ last.value = FindOneById(id).subdomain

====
